---- MODULE Spec2Model ----
(***************************************************************************)
(* A model of package trie (src/trie/trie.go): a prefix tree over          *)
(* codepoint sequences with Insert, Lookup, Delete (with the pruning walk) *)
(* and DumpKeys.                                                           *)
(*                                                                         *)
(* The tree is a heap of Node values.  A node's address (a Go pointer) is   *)
(* an opaque value that only "==" inspects; the model names a node by the  *)
(* label path it was allocated at, the root by the empty path.             *)
(* A key is a sequence of codepoints; the Go string handed to the Trie     *)
(* methods is its UTF-8 encoding, which the methods decode with            *)
(* []rune(key) and DumpKeys re-encodes with string(prefix).                *)
(***************************************************************************)
EXTENDS Integers, Sequences, FiniteSets, TLC

\* Longest key the environment passes in, in codepoints.
MaxLen == 2

\* Most nodes, the root aside, the heap holds at once.
MaxNodes == 3

\* The codepoints keys are made of: 'a' (one byte in UTF-8), U+00E9 (two).
Alphabet == {97, 233}

\* The separators handed to DumpKeys, as byte strings: "" and "\n".
Seps == {<< >>, <<10>>}

\* The nil *Node.
Nil == <<-1>>

\* The address of Trie.root.
Root == << >>

ErrNil == "nil"
ErrKeyNotFound == "key not found"
ErrKeyLength == "key length cannot be zero"
\* The error the sink returns from a failed Write.
ErrSink == "sink write failed"
\* A run-time panic (nil pointer dereference): the call never returns.
Panic == "panic: nil pointer dereference"

Keys == UNION {[1..n -> Alphabet] : n \in 0..MaxLen}

VARIABLES
    nodes,      \* the heap: address -> Node, for the nodes reachable from the root
    call,       \* the last call made on the trie, with what it returned
    pending,    \* in a fill-and-drain run: the keys inserted and not yet deleted
    order       \* in a fill-and-drain run: the keys inserted, in insertion order

vars == <<nodes, call, pending, order>>

-----------------------------------------------------------------------------
(* Conversions between Go strings (byte sequences) and []rune.             *)

IsCont(b) == b >= 128 /\ b <= 191

\* The UTF-8 encoding of one rune, as string([]rune) produces it.
EncodeRune(r) ==
    IF r < 0 \/ r > 1114111 \/ (r >= 55296 /\ r <= 57343) THEN <<239, 191, 189>>
    ELSE IF r < 128 THEN <<r>>
    ELSE IF r < 2048 THEN <<192 + (r \div 64), 128 + (r % 64)>>
    ELSE IF r < 65536 THEN
        <<224 + (r \div 4096), 128 + ((r \div 64) % 64), 128 + (r % 64)>>
    ELSE <<240 + (r \div 262144), 128 + ((r \div 4096) % 64),
           128 + ((r \div 64) % 64), 128 + (r % 64)>>

RECURSIVE String(_)
\* string(prefix) for prefix []rune.
String(a) == IF a = << >> THEN << >> ELSE EncodeRune(Head(a)) \o String(Tail(a))

\* The first rune of a non-empty byte string and the bytes it takes; an
\* invalid or truncated encoding decodes to U+FFFD and takes one byte.
DecodeRune(s) ==
    LET b == s[1]
        bad == [rune |-> 65533, size |-> 1]     \* utf8.RuneError
        v2 == (b - 192) * 64 + (s[2] - 128)
        v3 == ((b - 224) * 64 + (s[2] - 128)) * 64 + (s[3] - 128)
        v4 == (((b - 240) * 64 + (s[2] - 128)) * 64 + (s[3] - 128)) * 64 + (s[4] - 128)
    IN  IF b < 128 THEN [rune |-> b, size |-> 1]
        ELSE IF b >= 194 /\ b <= 223 THEN
            IF Len(s) >= 2 /\ IsCont(s[2]) THEN [rune |-> v2, size |-> 2] ELSE bad
        ELSE IF b >= 224 /\ b <= 239 THEN
            IF Len(s) >= 3 /\ IsCont(s[2]) /\ IsCont(s[3])
               /\ v3 >= 2048 /\ ~(v3 >= 55296 /\ v3 <= 57343)
            THEN [rune |-> v3, size |-> 3] ELSE bad
        ELSE IF b >= 240 /\ b <= 244 THEN
            IF Len(s) >= 4 /\ IsCont(s[2]) /\ IsCont(s[3]) /\ IsCont(s[4])
               /\ v4 >= 65536 /\ v4 <= 1114111
            THEN [rune |-> v4, size |-> 4] ELSE bad
        ELSE bad

RECURSIVE Runes(_)
\* []rune(key) for key string.
Runes(s) ==
    IF s = << >> THEN << >>
    ELSE LET d == DecodeRune(s)
         IN  <<d.rune>> \o Runes(SubSeq(s, d.size + 1, Len(s)))

-----------------------------------------------------------------------------
(* Node                                                                    *)

\* The new node without "parent: n".
NewNodeNoParent(r, p) == [label |-> r, children |-> << >>, parent |-> Nil, leaf |-> FALSE]

\* The zero Node with the given label and parent: &Node{label: r, parent: p}.
NewNode(r, p) == [label |-> r, children |-> << >>, parent |-> p, leaf |-> FALSE]

\* The address of the node allocated as a child of n with label r.
Alloc(n, r) == Append(n, r)

IsLeaf(h, n) == h[n].leaf

\* The position in cs of the first child labelled r, 0 when there is none:
\* the scan "for _, c := range n.children { if c.label == a[0] {".
FirstChild(h, cs, r) ==
    IF \E i \in 1..Len(cs) : h[cs[i]].label = r
    THEN CHOOSE i \in 1..Len(cs) :
            h[cs[i]].label = r /\ \A j \in 1..(i - 1) : h[cs[j]].label # r
    ELSE 0

RECURSIVE NodeLookup(_, _, _)
\* Lookup that reports the node spelling the key as found whatever its leaf
\* flag: "return c, true" for "return c, c.IsLeaf()".
NodeLookupIgnoresLeaf(h, n, a) ==
    IF Len(a) < 1 THEN [node |-> n, found |-> FALSE]
    ELSE LET i == FirstChild(h, h[n].children, a[1])
         IN  IF i = 0 THEN [node |-> n, found |-> FALSE]
             ELSE LET c == h[n].children[i]
                  IN  IF Len(a) > 1 THEN NodeLookup(h, c, Tail(a))
                      ELSE [node |-> c, found |-> TRUE]

\* Lookup that answers a miss below the root with the root: "return root,
\* false" for "return n, false".
NodeLookupMissReturnsRoot(h, n, a) ==
    IF Len(a) < 1 THEN [node |-> Root, found |-> FALSE]
    ELSE LET i == FirstChild(h, h[n].children, a[1])
         IN  IF i = 0 THEN [node |-> Root, found |-> FALSE]
             ELSE LET c == h[n].children[i]
                  IN  IF Len(a) > 1 THEN NodeLookup(h, c, Tail(a))
                      ELSE [node |-> c, found |-> IsLeaf(h, c)]

\* func (n *Node) Lookup(a []rune) (*Node, bool)
NodeLookup(h, n, a) ==
    IF Len(a) < 1 THEN [node |-> n, found |-> FALSE]
    ELSE LET i == FirstChild(h, h[n].children, a[1])
         IN  IF i = 0 THEN [node |-> n, found |-> FALSE]
             ELSE LET c == h[n].children[i]
                  IN  IF Len(a) > 1 THEN NodeLookup(h, c, Tail(a))
                      ELSE [node |-> c, found |-> IsLeaf(h, c)]

\* func (t *Trie) Lookup(key string) (*Node, bool)
TrieLookup(h, key) == NodeLookup(h, Root, Runes(key))

RECURSIVE NodeInsert(_, _, _)
\* Insert without the scan of the existing children: it appends a new child
\* for a[0] whatever children the node has.
NodeInsertNoScan(h, n, a) ==
    LET newChild == Alloc(n, a[1])
        h1 == [x \in DOMAIN h \cup {newChild} |->
                 IF x = newChild THEN NewNode(a[1], n)
                 ELSE IF x = n
                      THEN [h[n] EXCEPT !.children = Append(@, newChild)]
                      ELSE h[x]]
    IN  IF Len(a) > 1 THEN NodeInsert(h1, newChild, Tail(a))
        ELSE [h1 EXCEPT ![newChild].leaf = TRUE]

\* Insert that sets leaf on every node it creates, the intermediate ones
\* included.
NodeInsertMarksAll(h, n, a) ==
    LET i == FirstChild(h, h[n].children, a[1])
    IN  IF i # 0 THEN
            IF Len(a) > 1 THEN NodeInsert(h, h[n].children[i], Tail(a))
            ELSE h
        ELSE LET newChild == Alloc(n, a[1])
                 h1 == [x \in DOMAIN h \cup {newChild} |->
                          IF x = newChild THEN [NewNode(a[1], n) EXCEPT !.leaf = TRUE]
                          ELSE IF x = n
                               THEN [h[n] EXCEPT !.children = Append(@, newChild)]
                               ELSE h[x]]
             IN  IF Len(a) > 1 THEN NodeInsert(h1, newChild, Tail(a))
                 ELSE h1

\* func (n *Node) Insert(a []rune) error: the heap it leaves (it returns nil
\* on every path).
NodeInsert(h, n, a) ==
    LET i == FirstChild(h, h[n].children, a[1])
    IN  IF i # 0 THEN
            IF Len(a) > 1 THEN NodeInsert(h, h[n].children[i], Tail(a))
            ELSE h
        ELSE LET newChild == Alloc(n, a[1])
                 h1 == [x \in DOMAIN h \cup {newChild} |->
                          IF x = newChild THEN NewNode(a[1], n)
                          ELSE IF x = n
                               THEN [h[n] EXCEPT !.children = Append(@, newChild)]
                               ELSE h[x]]
             IN  IF Len(a) > 1 THEN NodeInsert(h1, newChild, Tail(a))
                 ELSE [h1 EXCEPT ![newChild].leaf = TRUE]

\* func (t *Trie) Insert(key string) error
TrieInsert(h, key) ==
    IF Len(key) < 1 THEN [heap |-> h, err |-> ErrKeyLength]
    ELSE [heap |-> NodeInsert(h, Root, Runes(key)), err |-> ErrNil]

\* The heap without node n, which nothing refers to any more.
Collect(h, n) == [x \in DOMAIN h \ {n} |-> h[x]]

RECURSIVE NodeDelete(_, _)
\* The pruning walk with the comparison inverted, "if c == n" for
\* "if c != n": the parent keeps the node and loses its other children.
NodeDeleteDropsSiblings(h, n) ==
    IF IsLeaf(h, n) THEN [heap |-> h, panic |-> FALSE]
    ELSE IF Len(h[n].children) > 0 THEN [heap |-> h, panic |-> FALSE]
    ELSE IF h[n].parent = Nil THEN [heap |-> h, panic |-> TRUE]
    ELSE LET p == h[n].parent
             a == SelectSeq(h[p].children, LAMBDA c : c = n)
             h1 == [h EXCEPT ![p].children = a]
         IN  NodeDelete(h1, p)

\* The pruning walk without "n.parent.Delete()": it removes the node from
\* its parent and goes no further up.
NodeDeleteOneLevel(h, n) ==
    IF IsLeaf(h, n) THEN [heap |-> h, panic |-> FALSE]
    ELSE IF Len(h[n].children) > 0 THEN [heap |-> h, panic |-> FALSE]
    ELSE IF h[n].parent = Nil THEN [heap |-> h, panic |-> TRUE]
    ELSE LET p == h[n].parent
             a == SelectSeq(h[p].children, LAMBDA c : c # n)
             h1 == [h EXCEPT ![p].children = a]
         IN  [heap |-> Collect(h1, n), panic |-> FALSE]

\* The pruning walk that rebuilds the parent's children back to front,
\* "a = append([]*Node{c}, a...)" for "a = append(a, c)".
NodeDeleteReverses(h, n) ==
    IF IsLeaf(h, n) THEN [heap |-> h, panic |-> FALSE]
    ELSE IF Len(h[n].children) > 0 THEN [heap |-> h, panic |-> FALSE]
    ELSE IF h[n].parent = Nil THEN [heap |-> h, panic |-> TRUE]
    ELSE LET p == h[n].parent
             b == SelectSeq(h[p].children, LAMBDA c : c # n)
             a == [i \in 1..Len(b) |-> b[Len(b) + 1 - i]]
             h1 == [h EXCEPT ![p].children = a]
         IN  NodeDelete(Collect(h1, n), p)

\* func (n *Node) Delete(): the heap it leaves, and whether it panicked.
NodeDelete(h, n) ==
    IF IsLeaf(h, n) THEN [heap |-> h, panic |-> FALSE]
    ELSE IF Len(h[n].children) > 0 THEN [heap |-> h, panic |-> FALSE]
    ELSE IF h[n].parent = Nil THEN [heap |-> h, panic |-> TRUE]
    ELSE LET p == h[n].parent
             a == SelectSeq(h[p].children, LAMBDA c : c # n)
             h1 == [h EXCEPT ![p].children = a]
         IN  NodeDelete(Collect(h1, n), p)

\* Delete without "if !ok { return ErrKeyNotFound }" before the mutation: it
\* clears and prunes the node Lookup returned, found or not.
TrieDeleteMutatesFirst(h, key) ==
    IF Len(key) < 1 THEN [heap |-> h, err |-> ErrKeyLength]
    ELSE LET r == NodeLookup(h, Root, Runes(key))
             d == NodeDelete([h EXCEPT ![r.node].leaf = FALSE], r.node)
         IN  IF ~r.found THEN [heap |-> d.heap, err |-> ErrKeyNotFound]
             ELSE [heap |-> d.heap, err |-> IF d.panic THEN Panic ELSE ErrNil]

\* Delete without the "if len(key) < 1" check.
TrieDeleteNoLengthCheck(h, key) ==
    LET r == NodeLookup(h, Root, Runes(key))
    IN  IF ~r.found THEN [heap |-> h, err |-> ErrKeyNotFound]
        ELSE LET d == NodeDelete([h EXCEPT ![r.node].leaf = FALSE], r.node)
             IN  [heap |-> d.heap, err |-> IF d.panic THEN Panic ELSE ErrNil]

\* func (t *Trie) Delete(key string) error
TrieDelete(h, key) ==
    IF Len(key) < 1 THEN [heap |-> h, err |-> ErrKeyLength]
    ELSE LET r == NodeLookup(h, Root, Runes(key))
         IN  IF ~r.found THEN [heap |-> h, err |-> ErrKeyNotFound]
             ELSE LET d == NodeDelete([h EXCEPT ![r.node].leaf = FALSE], r.node)
                  IN  [heap |-> d.heap, err |-> IF d.panic THEN Panic ELSE ErrNil]

-----------------------------------------------------------------------------
(* DumpKeys.  prefix is a Go slice: a window [1..len] on a backing array   *)
(* of cap elements that append extends in place while len < cap, so the    *)
(* calls on the children of one node may share one array.                  *)

NilSlice == [arr |-> 0, len |-> 0, cap |-> 0]

\* The room append may leave behind the element it adds when it allocates a
\* new array: the language asks for a "sufficiently large" one and no more.
\* With 0 no two slices share an array; with 1 the capacities are those of
\* the gc runtime for runes slices this short (2, then 4).
Slacks == {0, 1}

\* The capacity append gives the new backing array of a full []rune of
\* length len.
GrowCap(len, slack) == len + 1 + slack

\* The runes slice s shows of the backing arrays arrs.
Contents(arrs, s) == IF s.arr = 0 THEN << >> ELSE SubSeq(arrs[s.arr], 1, s.len)

\* append(s, r): the backing arrays after it and the slice it returns.
AppendRune(arrs, s, r, slack) ==
    IF s.len < s.cap
    THEN [arrs  |-> [arrs EXCEPT ![s.arr][s.len + 1] = r],
          slice |-> [s EXCEPT !.len = s.len + 1]]
    ELSE LET newcap == GrowCap(s.len, slack)
             fresh == [i \in 1..newcap |->
                         IF i <= s.len THEN arrs[s.arr][i]
                         ELSE IF i = s.len + 1 THEN r ELSE 0]
         IN  [arrs  |-> Append(arrs, fresh),
              slice |-> [arr |-> Len(arrs) + 1, len |-> s.len + 1, cap |-> newcap]]

\* A sink that has taken no write yet.
NewSink == [writes |-> << >>, arrs |-> << >>, err |-> ErrNil]

RECURSIVE NodeDumpKeys(_, _, _, _, _, _, _)
RECURSIVE DumpChildren(_, _, _, _, _, _, _, _)
\* DumpKeys without "if n.parent != nil": the root's label is appended to
\* the prefix like any other.
NodeDumpKeysLabelsRoot(h, n, sep, prefix, st, failAt, slack) ==
    LET ap == AppendRune(st.arrs, prefix, h[n].label, slack)
        st1 == [st EXCEPT !.arrs = ap.arrs]
        st2 == [st1 EXCEPT !.writes =
                   Append(@, String(Contents(ap.arrs, ap.slice)) \o sep)]
    IN  IF IsLeaf(h, n) /\ Len(st2.writes) = failAt
        THEN [st2 EXCEPT !.err = ErrSink]
        ELSE [DumpChildren(h, h[n].children, 1, sep, ap.slice,
                           IF IsLeaf(h, n) THEN st2 ELSE st1, failAt, slack)
                EXCEPT !.err = ErrNil]

\* func (n *Node) DumpKeys(out io.Writer, sep string, prefix []rune) error.
\* st.writes are the byte strings handed to out.Write so far, the failAt-th
\* of which fails; st.err is the error returned.
NodeDumpKeys(h, n, sep, prefix, st, failAt, slack) ==
    LET ap == IF h[n].parent # Nil THEN AppendRune(st.arrs, prefix, h[n].label, slack)
              ELSE [arrs |-> st.arrs, slice |-> prefix]
        st1 == [st EXCEPT !.arrs = ap.arrs]
        st2 == [st1 EXCEPT !.writes =
                   Append(@, String(Contents(ap.arrs, ap.slice)) \o sep)]
    IN  IF IsLeaf(h, n) /\ Len(st2.writes) = failAt
        THEN [st2 EXCEPT !.err = ErrSink]
        ELSE [DumpChildren(h, h[n].children, 1, sep, ap.slice,
                           IF IsLeaf(h, n) THEN st2 ELSE st1, failAt, slack)
                EXCEPT !.err = ErrNil]

\* The loop over the children taken from the last child to the first.
DumpChildrenBackwards(h, cs, i, sep, prefix, st, failAt, slack) ==
    IF i > Len(cs) THEN st
    ELSE LET r == NodeDumpKeys(h, cs[Len(cs) + 1 - i], sep, prefix, st, failAt, slack)
         IN  DumpChildren(h, cs, i + 1, sep, prefix,
                          [r EXCEPT !.err = ErrNil], failAt, slack)

\* for _, c := range n.children { c.DumpKeys(out, sep, prefix) }, from the
\* i-th child on: what each call returns is dropped.
DumpChildren(h, cs, i, sep, prefix, st, failAt, slack) ==
    IF i > Len(cs) THEN st
    ELSE LET r == NodeDumpKeys(h, cs[i], sep, prefix, st, failAt, slack)
         IN  DumpChildren(h, cs, i + 1, sep, prefix,
                          [r EXCEPT !.err = ErrNil], failAt, slack)

\* func DumpKeys(out io.Writer, sep string, t Trie) error
DumpKeys(h, sep, failAt, slack) ==
    NodeDumpKeys(h, Root, sep, NilSlice, NewSink, failAt, slack)

-----------------------------------------------------------------------------
(* The calls a program makes on one Trie.                                  *)

NoCall ==
    [op |-> "none", key |-> << >>, err |-> ErrNil, found |-> FALSE, node |-> Nil,
     sep |-> << >>, failAt |-> 0, writes |-> << >>]

\* var t Trie: the zero value, an empty trie.
Init ==
    /\ nodes = (Root :> NewNode(0, Nil))
    /\ call = NoCall
    /\ pending = {}
    /\ order = << >>

\* A panicked program makes no further call.
Running == call.err # Panic

\* t.Insert(String(k)), while the heap has room for the nodes it allocates.
InsertCall(k) ==
    /\ Running
    /\ LET r == TrieInsert(nodes, String(k))
       IN  /\ Cardinality(DOMAIN r.heap) - 1 <= MaxNodes
           /\ nodes' = r.heap
           /\ call' = [NoCall EXCEPT !.op = "Insert", !.key = k, !.err = r.err]

\* A Lookup that creates the path of a key it does not find.
LookupCallVivifies(k) ==
    /\ Running
    /\ LET r == TrieLookup(nodes, String(k))
           h2 == TrieInsert(nodes, String(k)).heap
       IN  /\ call' = [NoCall EXCEPT !.op = "Lookup", !.key = k,
                                     !.found = r.found, !.node = r.node]
           /\ nodes' = IF r.found \/ Cardinality(DOMAIN h2) - 1 > MaxNodes
                       THEN nodes ELSE h2

\* t.Lookup(String(k))
LookupCall(k) ==
    /\ Running
    /\ LET r == TrieLookup(nodes, String(k))
       IN  call' = [NoCall EXCEPT !.op = "Lookup", !.key = k,
                                  !.found = r.found, !.node = r.node]
    /\ UNCHANGED nodes

\* t.Delete(String(k))
DeleteCall(k) ==
    /\ Running
    /\ LET r == TrieDelete(nodes, String(k))
       IN  /\ nodes' = r.heap
           /\ call' = [NoCall EXCEPT !.op = "Delete", !.key = k, !.err = r.err]

\* DumpKeys(out, sep, t) on a sink whose failAt-th Write fails (0: none does).
DumpCall(sep, failAt, slack) ==
    /\ Running
    /\ LET r == DumpKeys(nodes, sep, failAt, slack)
       IN  call' = [NoCall EXCEPT !.op = "DumpKeys", !.sep = sep, !.failAt = failAt,
                                  !.err = r.err, !.writes = r.writes]
    /\ UNCHANGED nodes

-----------------------------------------------------------------------------
(* Any calls in any order.                                                 *)

Insert(k) == InsertCall(k) /\ UNCHANGED <<pending, order>>

Lookup(k) == LookupCall(k) /\ UNCHANGED <<pending, order>>

Delete(k) == DeleteCall(k) /\ UNCHANGED <<pending, order>>

Dump(sep, failAt, slack) == DumpCall(sep, failAt, slack) /\ UNCHANGED <<pending, order>>

Next ==
    \/ \E k \in Keys : Insert(k)
    \/ \E k \in Keys : Lookup(k)
    \/ \E k \in Keys : Delete(k)
    \/ \E sep \in Seps, failAt \in 0..MaxNodes, slack \in Slacks :
            Dump(sep, failAt, slack)

Spec == Init /\ [][Next]_vars

-----------------------------------------------------------------------------
(* Fill and drain: non-empty keys are inserted into the empty trie, dumped *)
(* at will, and then deleted one at a time in any order.                   *)

Filling == call.op \in {"none", "Insert", "DumpKeys"}

FillInsert(k) ==
    /\ Filling
    /\ k # << >>
    /\ InsertCall(k)
    /\ pending' = pending \cup {k}
    /\ order' = IF k \in pending THEN order ELSE Append(order, k)

FillDump(sep, failAt, slack) ==
    /\ Filling
    /\ DumpCall(sep, failAt, slack)
    /\ UNCHANGED <<pending, order>>

DrainDelete(k) ==
    /\ k \in pending
    /\ DeleteCall(k)
    /\ pending' = pending \ {k}
    /\ UNCHANGED order

FillDrainNext ==
    \/ \E k \in Keys : FillInsert(k)
    \/ \E sep \in Seps, failAt \in 0..MaxNodes, slack \in Slacks :
            FillDump(sep, failAt, slack)
    \/ \E k \in Keys : DrainDelete(k)

FillDrain == Init /\ [][FillDrainNext]_vars

-----------------------------------------------------------------------------
(* Inserts, deletes and dumps of the non-empty keys and of keys that begin *)
(* with a third codepoint, so that the root can lose one child and keep    *)
(* two.                                                                    *)

Euro == <<8364>>

WideKeys == {k \in Keys : k # << >>} \cup {Euro} \cup {Euro \o <<c>> : c \in Alphabet}

WideNext ==
    \/ \E k \in WideKeys : Insert(k)
    \/ \E k \in WideKeys : Delete(k)
    \/ \E sep \in Seps, slack \in Slacks : Dump(sep, 0, slack)

Wide == Init /\ [][WideNext]_vars

-----------------------------------------------------------------------------
(* Properties.                                                             *)

\* Whether t.Lookup(String(k)) reports k as found in heap h.
Found(h, k) == TrieLookup(h, String(k)).found

\* The keys stored in h: those Lookup finds.
Stored(h) == {k \in Keys : Found(h, k)}

\* Whether key p is a strict prefix of key k.
StrictPrefix(p, k) == Len(p) < Len(k) /\ SubSeq(k, 1, Len(p)) = p

\* C1: in every reachable state and for every non-empty key K, Insert(K)
\* returns success and a Lookup(K) right after it reports found = true, also
\* when K's path was already there as a non-terminal node.
C1_InsertThenFound ==
    (call.op = "Insert" /\ call.key # << >>)
        => (call.err = ErrNil /\ Found(nodes, call.key))

\* C2: after a set of non-empty keys was inserted into the empty trie, deleting
\* them one at a time in any order succeeds each time, and after the last
\* Delete the root has no children and DumpKeys writes nothing.
C2_DrainLeavesRootAlone ==
    call.op = "Delete"
        => /\ call.err = ErrNil
           /\ pending = {}
                => /\ nodes[Root].children = << >>
                   /\ DOMAIN nodes = {Root}
                   /\ \A sep \in Seps, slack \in Slacks :
                        DumpKeys(nodes, sep, 0, slack).writes = << >>

\* C3: when a Write of the sink fails during DumpKeys, the traversal stops
\* (the failed Write is the last one attempted) and DumpKeys returns that
\* failure.
C3_DumpStopsAtSinkFailure ==
    (call.op = "DumpKeys" /\ call.failAt \in 1..Len(call.writes))
        => (call.err = ErrSink /\ Len(call.writes) = call.failAt)

\* C4: after the keys of a set S were inserted into the empty trie in any
\* order, DumpKeys on a sink that does not fail writes, for each key of S,
\* exactly one string, the key followed by the separator, and nothing else.
C4_DumpWritesEachKeyOnce ==
    (call.op = "DumpKeys" /\ call.failAt = 0)
        => /\ Len(call.writes) = Cardinality(pending)
           /\ \A k \in pending :
                Cardinality({i \in 1..Len(call.writes) :
                                call.writes[i] = String(k) \o call.sep}) = 1

\* C5: for every non-empty key K that Lookup reports as found, Delete(K)
\* returns success and a Lookup(K) right after it reports found = false.
C5_DeleteFoundSucceeds ==
    [][(call'.op = "Delete" /\ call'.key # << >> /\ Found(nodes, call'.key))
          => (call'.err = ErrNil /\ ~Found(nodes', call'.key))]_vars

\* C6: for every non-empty key K that Lookup reports as not found, Delete(K)
\* returns ErrKeyNotFound and leaves the heap as it was: the same nodes, child
\* orders and leaf flags, hence the same Lookup result for every key.
C6_DeleteMissingLeavesTree ==
    [][(call'.op = "Delete" /\ call'.key # << >> /\ ~Found(nodes, call'.key))
          => /\ call'.err = ErrKeyNotFound
             /\ nodes' = nodes
             /\ \A k \in Keys :
                  TrieLookup(nodes', String(k)) = TrieLookup(nodes, String(k))]_vars

\* C6's case: Delete of a strict prefix of a stored key, itself not stored,
\* has returned ErrKeyNotFound.
C6_Witness ==
    /\ call.op = "Delete"
    /\ call.err = ErrKeyNotFound
    /\ call.key # << >>
    /\ \E k \in Stored(nodes) : StrictPrefix(call.key, k)

\* C7: in every reachable state Insert("") and Delete("") return ErrKeyLength
\* and leave the heap as it was, and Lookup("") returns the root and
\* found = false.
C7_EmptyKey ==
    [][call'.key = << >>
          => /\ call'.op \in {"Insert", "Delete"}
                  => (call'.err = ErrKeyLength /\ nodes' = nodes)
             /\ call'.op = "Lookup"
                  => (call'.node = Root /\ ~call'.found /\ nodes' = nodes)]_vars

\* C7's case: Delete("") has returned ErrKeyLength on a trie that holds keys.
C7_Witness ==
    /\ call.op = "Delete"
    /\ call.key = << >>
    /\ call.err = ErrKeyLength
    /\ Stored(nodes) # {}

\* C8: a Delete(K) that returns success changes the Lookup result of K only:
\* every other key is found after it exactly if it was found before it, so
\* the stored keys K is a strict prefix of stay found.
C8_DeleteFrame ==
    [][(call'.op = "Delete" /\ call'.err = ErrNil)
          => \A k \in Keys \ {call'.key} : Found(nodes', k) = Found(nodes, k)]_vars

\* C8's case: a Delete has succeeded on a key that is a strict prefix of a key
\* still stored.
C8_Witness ==
    /\ call.op = "Delete"
    /\ call.err = ErrNil
    /\ \E k \in Stored(nodes) : StrictPrefix(call.key, k)

\* C9: for every non-empty key K, a second Insert(K) right after an Insert(K)
\* leaves the heap as the first one left it (no node created, same child
\* orders, same leaf flags) and Lookup(K) reports found = true after it.
C9_InsertIdempotent ==
    (call.op = "Insert" /\ call.key # << >>)
        => LET r == TrieInsert(nodes, String(call.key))
           IN  /\ r.err = ErrNil
               /\ r.heap = nodes
               /\ Found(r.heap, call.key)

\* C10: Lookup(K) reports found = true only if Insert(K) was called and no
\* successful Delete(K) followed the last such call.  Stated step by step: no
\* key is found in the empty trie, a key not found before a call is found
\* after it only if the call is a successful Insert of that key, and a key is
\* not found after a successful Delete of it.  (A step that leaves the tree
\* as it was and is no successful Delete changes no answer of Lookup.)
C10_NoFalsePositive ==
    /\ Stored(nodes) = {}
    /\ [][\/ nodes' = nodes /\ ~(call'.op = "Delete" /\ call'.err = ErrNil)
          \/ \A k \in Keys :
                /\ (Found(nodes', k) /\ ~Found(nodes, k))
                      => (call'.op = "Insert" /\ call'.key = k /\ call'.err = ErrNil)
                /\ (call'.op = "Delete" /\ call'.key = k /\ call'.err = ErrNil)
                      => ~Found(nodes', k)]_vars

\* C10's case: Lookup has reported found = false for a non-empty key that is
\* a strict prefix of a stored key while another key is stored beside it.
C10_Witness ==
    /\ call.op = "Lookup"
    /\ call.key # << >>
    /\ ~call.found
    /\ \E k \in Stored(nodes) : StrictPrefix(call.key, k)
    /\ \E k \in Stored(nodes) : ~StrictPrefix(call.key, k)

RECURSIVE PathOf(_, _)
\* The labels on the path from the root (excluded) to node n, read off the
\* parent links.
PathOf(h, n) ==
    IF h[n].parent = Nil THEN << >>
    ELSE Append(PathOf(h, h[n].parent), h[n].label)

RECURSIVE PreOrder(_, _)
RECURSIVE PreOrderOfAll(_, _, _)
\* The keys of the leaf nodes of the subtree of n in pre-order, depth first:
\* n's own key, then the keys of each child's subtree, in the stored order of
\* the children.
PreOrder(h, n) ==
    (IF h[n].leaf THEN <<PathOf(h, n)>> ELSE << >>)
        \o PreOrderOfAll(h, h[n].children, 1)

PreOrderOfAll(h, cs, i) ==
    IF i > Len(cs) THEN << >>
    ELSE PreOrder(h, cs[i]) \o PreOrderOfAll(h, cs, i + 1)

\* What a dump of the keys ks writes: each key followed by the separator.
Written(ks, sep) == [i \in 1..Len(ks) |-> String(ks[i]) \o sep]

\* Whether every key of the sequence o comes after the keys of o it extends.
PrefixFirst(o) ==
    \A i, j \in 1..Len(o) : StrictPrefix(o[i], o[j]) => i < j

\* The place in o of the first key that passes through the node spelling p.
FirstEntered(o, p) ==
    CHOOSE i \in 1..Len(o) :
        /\ (p = o[i] \/ StrictPrefix(p, o[i]))
        /\ \A j \in 1..(i - 1) : ~(p = o[j] \/ StrictPrefix(p, o[j]))

\* Whether the children of every node stand in the order in which the
\* insertions o first entered their subtrees.
SiblingsInEntryOrder(h, o) ==
    \A n \in DOMAIN h : \A i, j \in 1..Len(h[n].children) :
        i < j => FirstEntered(o, PathOf(h, h[n].children[i]))
                    < FirstEntered(o, PathOf(h, h[n].children[j]))

\* Whether the keys of every subtree are consecutive in o: a key between two
\* keys that share a prefix shares it too.
SubtreesConsecutive(o) ==
    \A i, j, k \in 1..Len(o) : \A n \in 1..MaxLen :
        (i < j /\ j < k /\ n <= Len(o[i]) /\ n <= Len(o[k])
            /\ SubSeq(o[i], 1, n) = SubSeq(o[k], 1, n))
          => (n <= Len(o[j]) /\ SubSeq(o[j], 1, n) = SubSeq(o[i], 1, n))

\* What DumpKeys has written is the pre-order of the stored keys.
DumpIsPreOrder ==
    (call.op = "DumpKeys" /\ call.failAt = 0)
        => call.writes = Written(PreOrder(nodes, Root), call.sep)

\* C11 as stated: DumpKeys writes the stored keys in pre-order with the
\* children in their stored order; and after keys were inserted into the empty
\* trie in an order in which every key comes after its stored prefixes and
\* sibling subtrees are first entered in that order, it writes exactly the
\* keys in insertion order, each followed by the separator.
C11_DumpInInsertionOrder ==
    /\ DumpIsPreOrder
    /\ (call.op = "DumpKeys" /\ call.failAt = 0
            /\ PrefixFirst(order) /\ SiblingsInEntryOrder(nodes, order))
          => call.writes = Written(order, call.sep)

\* C11 amended: DumpKeys writes the stored keys in pre-order with the children
\* in their stored order; and after keys were inserted into the empty trie in
\* an order in which every key comes after its stored prefixes and the keys
\* of each subtree are inserted consecutively, it writes exactly the keys in
\* insertion order, each followed by the separator.
C11_DumpInPreOrder ==
    /\ DumpIsPreOrder
    /\ (call.op = "DumpKeys" /\ call.failAt = 0
            /\ PrefixFirst(order) /\ SubtreesConsecutive(order))
          => call.writes = Written(order, call.sep)

\* C11's case: three keys, one a prefix of another and one in a sibling
\* subtree, were inserted in pre-order and dumped.
C11_Witness ==
    /\ call.op = "DumpKeys"
    /\ call.failAt = 0
    /\ Len(order) = 3
    /\ PrefixFirst(order) /\ SubtreesConsecutive(order)
    /\ \E i, j \in 1..Len(order) : StrictPrefix(order[i], order[j])
    /\ Len(nodes[Root].children) = 2
    /\ Len(call.writes) = 3

\* C12: the pruning walk a Delete starts ends without a fault and leaves the
\* root in place: Delete returns (success, or an error before any walk), the
\* root is still a node of the heap and has no parent, also when the walk
\* took the root's last child away.
C12_PruneStopsAtRoot ==
    call.op = "Delete"
        => /\ call.err \in {ErrNil, ErrKeyLength, ErrKeyNotFound}
           /\ Root \in DOMAIN nodes
           /\ nodes[Root].parent = Nil

\* The label paths of the nodes of heap h other than the root.
Paths(h) == {PathOf(h, n) : n \in DOMAIN h \ {Root}}

\* The non-empty prefixes of the keys ks.
Prefixes(ks) == UNION {{SubSeq(k, 1, i) : i \in 1..Len(k)} : k \in ks}

\* C13: after any completed Insert and Delete calls, every node other than
\* the root that has no children is terminal, and the nodes are exactly the
\* non-empty prefixes of the paths that end at terminal nodes.
C13_NoBareInnerNode ==
    Running
        => /\ \A n \in DOMAIN nodes \ {Root} :
                Len(nodes[n].children) = 0 => nodes[n].leaf
           /\ Paths(nodes) = Prefixes(Stored(nodes))

\* A Delete pruned a two-node path and left other keys in the trie.
C13_Witness ==
    /\ call.op = "Delete" /\ call.err = ErrNil
    /\ Len(call.key) = 2
    /\ Alloc(Root, call.key[1]) \notin DOMAIN nodes
    /\ Stored(nodes) # {}

\* The labels of the children cs in heap h.
Labels(h, cs) == {h[cs[i]].label : i \in 1..Len(cs)}

\* The children of every node of heap h carry pairwise distinct labels.
DistinctLabels(h) ==
    \A n \in DOMAIN h : \A i, j \in 1..Len(h[n].children) :
        h[h[n].children[i]].label = h[h[n].children[j]].label => i = j

\* Insert of key k on heap h leaves the children of every node as they were
\* or appends to them one child whose label none of them carried.
AppendsOnlyNewLabels(h, k) ==
    LET h2 == TrieInsert(h, String(k)).heap
    IN  \A n \in DOMAIN h :
            \/ h2[n].children = h[n].children
            \/ /\ Len(h2[n].children) = Len(h[n].children) + 1
               /\ SubSeq(h2[n].children, 1, Len(h[n].children)) = h[n].children
               /\ h2[h2[n].children[Len(h2[n].children)]].label
                     \notin Labels(h, h[n].children)

\* C14: in every reachable state the children of any one node have pairwise
\* distinct labels, and an Insert appends a child for a codepoint only to a
\* node none of whose children carries that codepoint.
C14_DistinctChildLabels ==
    /\ DistinctLabels(nodes)
    /\ \A k \in Keys : AppendsOnlyNewLabels(nodes, k)

\* An Insert went through an existing child of the root, which has two
\* children, and created a node below it.
C14_Witness ==
    /\ call.op = "Insert" /\ call.err = ErrNil
    /\ Len(call.key) = 2
    /\ Len(nodes[Root].children) = 2
    /\ nodes[Alloc(Root, call.key[1])].leaf
    /\ Len(nodes[Alloc(Root, call.key[1])].children) = 1

\* The places (node, position) of heap h whose child is c.
Places(h, c) ==
    {pl \in (DOMAIN h) \X (1..(MaxNodes + 1)) :
        pl[2] <= Len(h[pl[1]].children) /\ h[pl[1]].children[pl[2]] = c}

\* The nodes of heap h reachable from node n by child links.
RECURSIVE Reachable(_, _)
Reachable(h, n) ==
    {n} \cup UNION {Reachable(h, h[n].children[i]) : i \in 1..Len(h[n].children)}

\* C15: in every reachable state the parent and child links agree: the root
\* has no parent, every child of a node is a node of the heap, every other
\* node reachable from the root is a child at exactly one place, which is in
\* its parent's sequence, and the nodes the pruning walk removed (the heap
\* holds the reachable nodes only) are in no child sequence.
C15_LinksAgree ==
    /\ nodes[Root].parent = Nil
    /\ Places(nodes, Root) = {}
    /\ Reachable(nodes, Root) = DOMAIN nodes
    /\ \A n \in DOMAIN nodes : \A i \in 1..Len(nodes[n].children) :
            nodes[n].children[i] \in DOMAIN nodes
    /\ \A c \in DOMAIN nodes \ {Root} :
            /\ Cardinality(Places(nodes, c)) = 1
            /\ \A pl \in Places(nodes, c) : nodes[c].parent = pl[1]

\* A Delete pruned a node from between others: the root keeps a child, and
\* a node two levels down is still linked.
C15_Witness ==
    /\ call.op = "Delete" /\ call.err = ErrNil
    /\ Alloc(Root, call.key[1]) \notin DOMAIN nodes
    /\ \E n \in DOMAIN nodes : Len(n) = 2

\* C16: Lookup and DumpKeys are pure reads: a step that is a Lookup or a
\* DumpKeys call, a lookup that misses and a dump whose sink fails included,
\* leaves every node, child sequence and leaf flag of the tree as it was.
C16_ReadsLeaveTree ==
    [][call'.op \in {"Lookup", "DumpKeys"} => nodes' = nodes]_vars

\* A Lookup missed below a node of a trie that stores keys.
C16_Witness ==
    /\ call.op = "Lookup" /\ ~call.found
    /\ call.node # Root
    /\ StrictPrefix(PathOf(nodes, call.node), call.key)

\* The longest prefix of key k, the empty one included, that is the label
\* path of a node of heap h.
LongestPath(h, k) ==
    LET ps == {i \in 0..Len(k) : SubSeq(k, 1, i) \in Paths(h) \cup {<< >>}}
    IN  SubSeq(k, 1, CHOOSE i \in ps : \A j \in ps : j <= i)

\* C17: the node Lookup(K) returns is the node at the end of the longest
\* prefix of K that is a path in the tree (the root when that prefix is
\* empty), and found is true exactly when that prefix is the whole of a
\* non-empty K and the node is terminal.
C17_LookupLongestPrefix ==
    call.op = "Lookup"
        => /\ call.node \in DOMAIN nodes
           /\ PathOf(nodes, call.node) = LongestPath(nodes, call.key)
           /\ call.found = (/\ call.key # << >>
                            /\ PathOf(nodes, call.node) = call.key
                            /\ nodes[call.node].leaf)

\* A Lookup of a two-codepoint key matched the first codepoint only, at a
\* node that is a stored key and has another child.
C17_Witness ==
    /\ call.op = "Lookup" /\ ~call.found
    /\ Len(call.key) = 2
    /\ Len(PathOf(nodes, call.node)) = 1
    /\ nodes[call.node].leaf
    /\ Len(nodes[call.node].children) = 1

\* The terminal nodes of heap h.
Leaves(h) == {n \in DOMAIN h : h[n].leaf}

\* C18: every string a DumpKeys call writes is the string of the labels on
\* the path from below the root to a terminal node, followed by the
\* separator; no two writes are for the same node, and on a sink that takes
\* every write each terminal node has its string written: the prefix is
\* intact whatever room append left in the buffers the calls share.
C18_WritesSpellPaths ==
    call.op = "DumpKeys"
        => /\ \A i \in 1..Len(call.writes) :
                \E n \in Leaves(nodes) :
                    call.writes[i] = String(PathOf(nodes, n)) \o call.sep
           /\ \A i, j \in 1..Len(call.writes) :
                call.writes[i] = call.writes[j] => i = j
           /\ call.failAt = 0 => Len(call.writes) = Cardinality(Leaves(nodes))

\* A dump went through a terminal node with two children, which extend the
\* prefix one after the other.
C18_Witness ==
    /\ call.op = "DumpKeys" /\ call.failAt = 0
    /\ \E n \in Leaves(nodes) \ {Root} : Len(nodes[n].children) = 2
    /\ Len(call.writes) = 3

\* Sequence s is the beginning of sequence t.
IsPrefixSeq(s, t) == Len(s) <= Len(t) /\ SubSeq(t, 1, Len(s)) = s

\* C19: an Insert(K) that succeeds leaves Lookup(K') as it was for every key
\* K' other than K; it removes no node, keeps every node's label, parent and
\* children in place (new children come after them), clears no leaf flag,
\* and the nodes it creates are non-terminal except at most one, the node
\* that spells K.
C19_InsertFrame ==
    [][(call'.op = "Insert" /\ call'.err = ErrNil)
        => /\ \A k \in Keys \ {call'.key} : Found(nodes', k) = Found(nodes, k)
           /\ DOMAIN nodes \subseteq DOMAIN nodes'
           /\ \A n \in DOMAIN nodes :
                /\ nodes'[n].label = nodes[n].label
                /\ nodes'[n].parent = nodes[n].parent
                /\ IsPrefixSeq(nodes[n].children, nodes'[n].children)
                /\ nodes[n].leaf => nodes'[n].leaf
           /\ \A n \in DOMAIN nodes' \ DOMAIN nodes :
                nodes'[n].leaf => PathOf(nodes', n) = call'.key
           /\ Cardinality(Leaves(nodes') \ DOMAIN nodes) <= 1
      ]_vars

\* An Insert created an intermediate node and a terminal node beside a
\* stored key.
C19_Witness ==
    /\ call.op = "Insert" /\ call.err = ErrNil
    /\ Len(call.key) = 2
    /\ ~nodes[Alloc(Root, call.key[1])].leaf
    /\ Len(nodes[Alloc(Root, call.key[1])].children) = 1
    /\ Len(nodes[Root].children) = 2
    /\ Cardinality(Stored(nodes)) = 2

\* Sequence s without its elements equal to e.
Without(s, e) == SelectSeq(s, LAMBDA w : w # e)

\* C20: after a Delete(K) that succeeds, what DumpKeys writes is what it
\* wrote before the Delete with the one entry for K taken out: the other
\* keys keep their relative order.
C20_DeleteKeepsDumpOrder ==
    [][(call'.op = "Delete" /\ call'.err = ErrNil)
        => \A sep \in Seps, slack \in Slacks :
              LET before == DumpKeys(nodes, sep, 0, slack).writes
                  after == DumpKeys(nodes', sep, 0, slack).writes
                  entry == String(call'.key) \o sep
              IN  /\ after = Without(before, entry)
                  /\ Len(after) = Len(before) - 1
      ]_vars

\* A Delete pruned one of three children of the root.
C20_Witness ==
    /\ call.op = "Delete" /\ call.err = ErrNil
    /\ Len(call.key) = 1
    /\ Alloc(Root, call.key[1]) \notin DOMAIN nodes
    /\ Len(nodes[Root].children) = 2

====
